---- MODULE Spec2Model ----
(***************************************************************************)
(* Model of src/movement.rs: SelRegion, Selection (merge-on-insert,        *)
(* binary search, range query, cursor queries, delta rebasing) and         *)
(* Movement (update_region, update_selection).  Indices are 0-based as in  *)
(* the source; a Rust vector v is a TLA+ sequence and v[i] of the source   *)
(* is v[i + 1] here.                                                       *)
(***************************************************************************)
EXTENDS Integers, Sequences, FiniteSets, TLC

\* ------------------------------------------------------------------------
\* Bounds of the model
\* ------------------------------------------------------------------------
\* largest offset a region of the Selection state machine may hold
MaxOff == 3
\* largest offset of a Selection that is rebased across an edit
MaxEditOff == 2
\* largest number of characters one edit inserts
MaxIns == 2
\* longest buffer text a movement is computed on
MaxBufLen == 5
\* largest repeat count (and explicit line number) of a movement
MaxCount == 2
\* largest number of regions inserted in every order
MaxItems == 3

\* ------------------------------------------------------------------------
\* usize
\* ------------------------------------------------------------------------
\* usize arithmetic, modelled with a 16-bit word: a subtraction below zero
\* or an addition past the word wraps around in a release build and panics
\* in a debug build
UsizeRange == 2 ^ 16

usize_sub(a, b) == IF a >= b THEN a - b ELSE a - b + UsizeRange

usize_add(a, b) == (a + b) % UsizeRange

\* ------------------------------------------------------------------------
\* ColPosition / Option<ColPosition>
\* ------------------------------------------------------------------------
NoneHoriz == [kind |-> "None", n |-> 0]
FirstNonBlank == [kind |-> "FirstNonBlank", n |-> 0]
Start == [kind |-> "Start", n |-> 0]
End == [kind |-> "End", n |-> 0]
Col(n) == [kind |-> "Col", n |-> n]

\* ------------------------------------------------------------------------
\* SelRegion
\* ------------------------------------------------------------------------
min(a, b) == IF a <= b THEN a ELSE b
max(a, b) == IF a >= b THEN a ELSE b

SelRegion(start, end, horiz) == [start |-> start, end |-> end, horiz |-> horiz]

SelRegion_min(r) == min(r.start, r.end)

SelRegion_max(r) == max(r.start, r.end)

is_caret(r) == r.start = r.end

\* mutant of should_merge: a touching caret is not absorbed
should_merge_overlap_only(self, other) ==
    SelRegion_min(other) < SelRegion_max(self)

\* mutant of should_merge: only a caret given as other is absorbed on touching
should_merge_other_caret(self, other) ==
    \/ SelRegion_min(other) < SelRegion_max(self)
    \/ /\ is_caret(other)
       /\ SelRegion_min(other) = SelRegion_max(self)

\* mutant of should_merge: only a caret given as self absorbs on touching
should_merge_self_caret(self, other) ==
    \/ SelRegion_min(other) < SelRegion_max(self)
    \/ /\ is_caret(self)
       /\ SelRegion_min(other) = SelRegion_max(self)

should_merge(self, other) ==
    \/ SelRegion_min(other) < SelRegion_max(self)
    \/ /\ (is_caret(self) \/ is_caret(other))
       /\ SelRegion_min(other) = SelRegion_max(self)

\* mutant of merge_with: the merged region ends at other's max
merge_with_other_max(self, other) ==
    LET is_forward == self.end > self.start \/ other.end > other.start
        new_min == min(SelRegion_min(self), SelRegion_min(other))
        new_max == SelRegion_max(other)
    IN  IF is_forward
        THEN SelRegion(new_min, new_max, NoneHoriz)
        ELSE SelRegion(new_max, new_min, NoneHoriz)

\* mutant of merge_with: the merged region takes the direction of self
merge_with_self_direction(self, other) ==
    LET is_forward == self.end > self.start
        new_min == min(SelRegion_min(self), SelRegion_min(other))
        new_max == max(SelRegion_max(self), SelRegion_max(other))
    IN  IF is_forward
        THEN SelRegion(new_min, new_max, NoneHoriz)
        ELSE SelRegion(new_max, new_min, NoneHoriz)

merge_with(self, other) ==
    LET is_forward == self.end > self.start \/ other.end > other.start
        new_min == min(SelRegion_min(self), SelRegion_min(other))
        new_max == max(SelRegion_max(self), SelRegion_max(other))
    IN  IF is_forward
        THEN SelRegion(new_min, new_max, NoneHoriz)
        ELSE SelRegion(new_max, new_min, NoneHoriz)

\* ------------------------------------------------------------------------
\* Selection: constructors
\* ------------------------------------------------------------------------
Selection_new == << >>

new_simple == << SelRegion(0, 0, NoneHoriz) >>

caret(offset) == << SelRegion(offset, offset, NoneHoriz) >>

region(start, end) == << SelRegion(start, end, NoneHoriz) >>

\* ------------------------------------------------------------------------
\* Selection: search
\* ------------------------------------------------------------------------
\* slice::binary_search_by(|r| r.max().cmp(&offset)): the loop keeps
\* [left, right) and probes left + size / 2; Ok(ix) and Err(ix) both
\* yield ix in search.
RECURSIVE binary_search_by(_, _, _, _)
binary_search_by(regions, offset, left, right) ==
    IF left < right
    THEN LET mid == left + ((right - left) \div 2)
             m == SelRegion_max(regions[mid + 1])
         IN  IF m < offset THEN binary_search_by(regions, offset, mid + 1, right)
             ELSE IF m > offset THEN binary_search_by(regions, offset, left, mid)
             ELSE mid
    ELSE left

\* mutant of search: the index of the first region whose max is above offset
search_above(regions, offset) ==
    Cardinality({ i \in 1 .. Len(regions) : SelRegion_max(regions[i]) <= offset })

search(regions, offset) ==
    IF Len(regions) = 0 \/ offset > SelRegion_max(regions[Len(regions)])
    THEN Len(regions)
    ELSE binary_search_by(regions, offset, 0, Len(regions))

\* ------------------------------------------------------------------------
\* Selection: add_region
\* ------------------------------------------------------------------------
\* Vec::insert(ix, e)
vec_insert(v, ix, e) == SubSeq(v, 1, ix) \o << e >> \o SubSeq(v, ix + 1, Len(v))

\* v[ix] = e
vec_set(v, ix, e) == [v EXCEPT ![ix + 1] = e]

\* mutant of remove_n_at: one element is removed however many were asked for
remove_n_at_one(v, index, n) ==
    IF n >= 1
    THEN SubSeq(v, 1, index) \o SubSeq(v, index + 2, Len(v))
    ELSE v

remove_n_at(v, index, n) ==
    IF n = 1
    THEN SubSeq(v, 1, index) \o SubSeq(v, index + 2, Len(v))
    ELSE IF n > 1
    THEN SubSeq(v, 1, index) \o SubSeq(v, index + n + 1, Len(v))
    ELSE v

\* mutant of merge_scan: the regions after the insertion point are not absorbed
merge_scan_none(regions, r, end_ix) == [region |-> r, end_ix |-> end_ix]

\* the while loop of add_region: absorbs regions[end_ix], regions[end_ix+1], ...
RECURSIVE merge_scan(_, _, _)
merge_scan(regions, r, end_ix) ==
    IF end_ix < Len(regions) /\ should_merge(r, regions[end_ix + 1])
    THEN merge_scan(regions, merge_with(r, regions[end_ix + 1]), end_ix + 1)
    ELSE [region |-> r, end_ix |-> end_ix]

\* add_region: the regions after the call, and the window [ix, end_ix) of
\* the regions before the call that the stored region replaced
add_region_steps(regions, r) ==
    LET ix0 == search(regions, SelRegion_min(r))
    IN  IF ix0 = Len(regions)
        THEN [regions |-> Append(regions, r), ix |-> ix0, end_ix |-> ix0]
        ELSE LET at_ix == regions[ix0 + 1]
                 starts_before == SelRegion_min(at_ix) <= SelRegion_min(r)
                 merges == starts_before /\ should_merge(at_ix, r)
                 r1 == IF merges THEN merge_with(at_ix, r) ELSE r
                 ix == IF starts_before /\ ~merges THEN ix0 + 1 ELSE ix0
                 end_ix0 == IF starts_before THEN ix0 + 1 ELSE ix0
                 sc == merge_scan(regions, r1, end_ix0)
             IN  [regions |->
                      IF ix = sc.end_ix
                      THEN vec_insert(regions, ix, sc.region)
                      ELSE remove_n_at(vec_set(regions, ix, sc.region),
                                       ix + 1, sc.end_ix - ix - 1),
                  ix |-> ix, end_ix |-> sc.end_ix]

add_region(regions, r) == add_region_steps(regions, r).regions

\* ------------------------------------------------------------------------
\* Selection: get_cursor_offset, min, collapse, to_caret
\* ------------------------------------------------------------------------
\* the outcome of a call: a panic, or the offset or the Selection returned
Panicked == [panic |-> TRUE, value |-> 0, sel |-> << >>]
ReturnedOffset(v) == [panic |-> FALSE, value |-> v, sel |-> << >>]
ReturnedSelection(rs) == [panic |-> FALSE, value |-> 0, sel |-> rs]

\* mutant of get_cursor_offset: offset 0 stands in for a missing region
get_cursor_offset_sentinel(regions) ==
    IF 0 < Len(regions) THEN ReturnedOffset(regions[1].end) ELSE ReturnedOffset(0)

\* self.regions[0].end: indexing past the end of a Vec panics
get_cursor_offset(regions) ==
    IF 0 < Len(regions) THEN ReturnedOffset(regions[1].end) ELSE Panicked

\* mutant of Selection_min: the first region instead of the last
Selection_min_first(regions) ==
    IF 0 < Len(regions) THEN ReturnedOffset(SelRegion_min(regions[1])) ELSE Panicked

\* self.regions[self.regions.len() - 1].min(): on an empty Vec the
\* subtraction panics in a debug build and wraps in a release build, where
\* the index is then past the end of the Vec
Selection_min(regions) ==
    LET last == usize_sub(Len(regions), 1)
    IN  IF last < Len(regions)
        THEN ReturnedOffset(SelRegion_min(regions[last + 1]))
        ELSE Panicked

collapse(regions) ==
    IF 0 < Len(regions)
    THEN ReturnedSelection(add_region(Selection_new, regions[1]))
    ELSE Panicked

to_caret(regions) ==
    IF 0 < Len(regions)
    THEN LET r == regions[1]
         IN  ReturnedSelection(<< SelRegion(r.end, r.end, r.horiz) >>)
    ELSE Panicked

\* ------------------------------------------------------------------------
\* Selection: regions_in_range
\* ------------------------------------------------------------------------
\* the pair (first, last) of the returned slice &regions[first..last]
regions_in_range(regions, start, end) ==
    LET first == search(regions, start)
        last0 == search(regions, end)
        last == IF last0 < Len(regions) /\ SelRegion_min(regions[last0 + 1]) <= end
                THEN last0 + 1
                ELSE last0
    IN  [first |-> first, last |-> last]

\* ------------------------------------------------------------------------
\* Edit transform service (xi_rope::Transformer over a RopeDelta)
\* ------------------------------------------------------------------------
Copy(beg, end) == [kind |-> "Copy", beg |-> beg, end |-> end, n |-> 0]
Insert(n) == [kind |-> "Insert", beg |-> 0, end |-> 0, n |-> n]

\* the delta of inserting k characters at offset p of a text of base_len
InsertDelta(p, k, base_len) ==
    (IF p > 0 THEN << Copy(0, p) >> ELSE << >>)
    \o << Insert(k) >>
    \o (IF p < base_len THEN << Copy(p, base_len) >> ELSE << >>)

\* the delta of deleting [a, b) from a text of base_len
DeleteDelta(a, b, base_len) ==
    (IF a > 0 THEN << Copy(0, a) >> ELSE << >>)
    \o (IF b < base_len THEN << Copy(b, base_len) >> ELSE << >>)

RECURSIVE transform_els(_, _, _, _, _)
transform_els(els, i, ix, after, result) ==
    IF i > Len(els)
    THEN result
    ELSE LET el == els[i]
         IN  IF el.kind = "Copy"
             THEN IF ix <= el.beg
                  THEN result
                  ELSE IF ix < el.end \/ (ix = el.end /\ ~after)
                  THEN result + ix - el.beg
                  ELSE transform_els(els, i + 1, ix, after, result + el.end - el.beg)
             ELSE transform_els(els, i + 1, ix, after, result + el.n)

transform(delta, ix, after) ==
    IF ix = 0 /\ ~after THEN 0 ELSE transform_els(delta, 1, ix, after, 0)

\* mutant of delta_bias: a caret is biased by the drift like a range
delta_bias_no_caret(r, after, drift) ==
    LET is_region_forward == r.start < r.end
    IN  IF drift = "Inside"
        THEN << ~is_region_forward, is_region_forward >>
        ELSE IF drift = "Outside"
        THEN << is_region_forward, ~is_region_forward >>
        ELSE << after, after >>

\* mutant of delta_bias: the Inside and Outside biases are exchanged
delta_bias_swapped(r, after, drift) ==
    LET is_region_forward == r.start < r.end
    IN  IF drift = "Inside" /\ ~is_caret(r)
        THEN << is_region_forward, ~is_region_forward >>
        ELSE IF drift = "Outside" /\ ~is_caret(r)
        THEN << ~is_region_forward, is_region_forward >>
        ELSE << after, after >>

\* ------------------------------------------------------------------------
\* Selection: apply_delta
\* ------------------------------------------------------------------------
\* the (start_after, end_after) pair chosen for one region
delta_bias(r, after, drift) ==
    LET is_region_forward == r.start < r.end
    IN  IF drift = "Inside" /\ ~is_caret(r)
        THEN << ~is_region_forward, is_region_forward >>
        ELSE IF drift = "Outside" /\ ~is_caret(r)
        THEN << is_region_forward, ~is_region_forward >>
        ELSE << after, after >>

RECURSIVE apply_delta_from(_, _, _, _, _, _)
apply_delta_from(regions, i, result, delta, after, drift) ==
    IF i > Len(regions)
    THEN result
    ELSE LET r == regions[i]
             bias == delta_bias(r, after, drift)
             new_region == SelRegion(transform(delta, r.start, bias[1]),
                                     transform(delta, r.end, bias[2]),
                                     NoneHoriz)
         IN  apply_delta_from(regions, i + 1, add_region(result, new_region),
                              delta, after, drift)

\* mutant of apply_delta: the rebased regions are pushed, not add_region-ed
apply_delta_push(regions, delta, after, drift) ==
    [i \in 1 .. Len(regions) |->
        LET bias == delta_bias(regions[i], after, drift)
        IN  SelRegion(transform(delta, regions[i].start, bias[1]),
                      transform(delta, regions[i].end, bias[2]),
                      NoneHoriz)]

apply_delta(regions, delta, after, drift) ==
    apply_delta_from(regions, 1, Selection_new, delta, after, drift)

\* ------------------------------------------------------------------------
\* Buffer and Mode (the external capability update_region queries)
\* ------------------------------------------------------------------------
\* a buffer is its text, a sequence of characters; "\n" is the line break
Modes == { "Normal", "Insert", "Visual" }

buffer_len(b) == Len(b)

\* number of line breaks before the offset
line_of_offset(b, offset) ==
    Cardinality({ i \in 1 .. min(offset, Len(b)) : b[i] = "\n" })

last_line(b) == line_of_offset(b, Len(b))

\* offset of the first character of the line; the text's length for the
\* line after the last one
offset_of_line(b, line) ==
    IF line > last_line(b)
    THEN Len(b)
    ELSE IF line = 0
    THEN 0
    ELSE CHOOSE o \in 1 .. Len(b) :
             b[o] = "\n" /\ line_of_offset(b, o) = line

offset_to_line_col(b, offset) ==
    LET line == line_of_offset(b, offset)
    IN  << line, offset - offset_of_line(b, line) >>

\* length of the line without its terminating line break
line_len(b, line) ==
    offset_of_line(b, line + 1) - offset_of_line(b, line)
        - (IF line < last_line(b) THEN 1 ELSE 0)

\* the max column of a line: excludes the line break and, outside Insert
\* mode, one further trailing position
line_max_col(b, mode, line) ==
    IF mode = "Insert"
    THEN line_len(b, line)
    ELSE max(line_len(b, line) - 1, 0)

line_end_offset(b, mode, offset) ==
    LET line == line_of_offset(b, offset)
    IN  offset_of_line(b, line) + line_max_col(b, mode, line)

col_on_line(b, mode, line, horiz) ==
    IF horiz.kind = "End"
    THEN line_max_col(b, mode, line)
    ELSE IF horiz.kind = "Col"
    THEN min(horiz.n, line_max_col(b, mode, line))
    ELSE 0

is_space(c) == c \in { " ", "\n" }

\* offsets at which a word starts
is_word_start(b, o) == o > 0 /\ o < Len(b) /\ is_space(b[o]) /\ ~is_space(b[o + 1])

\* start of the next word, or the end of the text
word_forward(b, offset) ==
    LET next == { o \in (offset + 1) .. Len(b) : o = Len(b) \/ is_word_start(b, o) }
    IN  IF next = {} THEN Len(b) ELSE CHOOSE o \in next : \A q \in next : o <= q

\* start of the previous word, or the start of the text
word_backword(b, offset) ==
    LET back == { o \in 0 .. (offset - 1) : o = 0 \/ is_word_start(b, o) }
    IN  IF back = {} THEN 0 ELSE CHOOSE o \in back : \A q \in back : o >= q

\* ------------------------------------------------------------------------
\* Movement
\* ------------------------------------------------------------------------
Left(count) == [kind |-> "Left", count |-> count, position |-> "none"]
Right(count) == [kind |-> "Right", count |-> count, position |-> "none"]
Up(count) == [kind |-> "Up", count |-> count, position |-> "none"]
Down(count) == [kind |-> "Down", count |-> count, position |-> "none"]
StartOfLine == [kind |-> "StartOfLine", count |-> 0, position |-> "none"]
EndOfLine == [kind |-> "EndOfLine", count |-> 0, position |-> "none"]
Line(position, n) == [kind |-> "Line", count |-> n, position |-> position]
WordForward(count) == [kind |-> "WordForward", count |-> count, position |-> "none"]
WordBackward(count) == [kind |-> "WordBackward", count |-> count, position |-> "none"]

\* one arm's result: the new end, the new horiz, and whether a usize
\* subtraction went below zero
Arm(end, horiz, underflow) == [end |-> end, horiz |-> horiz, underflow |-> underflow]

update_Left(count, r, b, mode) ==
    LET end == r.end
        line == line_of_offset(b, end)
        line_start_offset == offset_of_line(b, line)
        new_end == IF end < count
                   THEN 0
                   ELSE IF end - count > line_start_offset
                   THEN end - count
                   ELSE line_start_offset
    IN  Arm(new_end, Col(offset_to_line_col(b, new_end)[2]), FALSE)

update_Right(count, r, b, mode) ==
    LET end == r.end
        line_end == line_end_offset(b, mode, end)
        new_end0 == end + count
        new_end1 == IF new_end0 > buffer_len(b) THEN buffer_len(b) ELSE new_end0
        new_end == IF new_end1 > line_end THEN line_end ELSE new_end1
    IN  Arm(new_end, Col(offset_to_line_col(b, new_end)[2]), FALSE)

update_Up(count, r, b, mode) ==
    LET line0 == line_of_offset(b, r.end)
        line == IF line0 > count THEN line0 - count ELSE 0
        width == offset_of_line(b, line + 1) - offset_of_line(b, line)
        max_col0 == usize_sub(width, 1)
        max_col == IF max_col0 > 0 /\ mode # "Insert" THEN max_col0 - 1 ELSE max_col0
        col == IF r.horiz.kind = "End"
               THEN max_col
               ELSE IF r.horiz.kind = "Col"
               THEN (IF max_col > r.horiz.n THEN r.horiz.n ELSE max_col)
               ELSE 0
        new_end == usize_add(offset_of_line(b, line), col)
    IN  Arm(new_end, r.horiz, width < 1)

update_Down(count, r, b, mode) ==
    LET line0 == line_of_offset(b, r.end) + count
        line == IF line0 > last_line(b) THEN last_line(b) ELSE line0
        col == col_on_line(b, mode, line, r.horiz)
    IN  Arm(offset_of_line(b, line) + col, r.horiz, FALSE)

update_StartOfLine(r, b, mode) ==
    Arm(offset_of_line(b, line_of_offset(b, r.end)), Start, FALSE)

update_EndOfLine(r, b, mode) ==
    Arm(line_end_offset(b, mode, r.end), End, FALSE)

update_Line(position, n, r, b, mode) ==
    LET line == IF position = "Line"
                THEN (IF n > last_line(b) THEN last_line(b) ELSE n)
                ELSE IF position = "First"
                THEN 0
                ELSE last_line(b)
        col == col_on_line(b, mode, line, r.horiz)
    IN  Arm(offset_of_line(b, line) + col, r.horiz, FALSE)

\* for i in 0..count { new_end = buffer.word_forward(new_end) }
RECURSIVE word_forward_n(_, _, _)
word_forward_n(b, offset, count) ==
    IF count = 0 THEN offset ELSE word_forward_n(b, word_forward(b, offset), count - 1)

\* for i in 0..count { new_end = buffer.word_backword(new_end) }
RECURSIVE word_backword_n(_, _, _)
word_backword_n(b, offset, count) ==
    IF count = 0 THEN offset ELSE word_backword_n(b, word_backword(b, offset), count - 1)

\* mutant of update_WordForward: the loop runs once more than count
update_WordForward_inclusive(count, r, b, mode) ==
    LET new_end == word_forward_n(b, r.end, count + 1)
    IN  Arm(new_end, Col(offset_to_line_col(b, new_end)[2]), FALSE)

update_WordForward(count, r, b, mode) ==
    LET new_end == word_forward_n(b, r.end, count)
    IN  Arm(new_end, Col(offset_to_line_col(b, new_end)[2]), FALSE)

update_WordBackward(count, r, b, mode) ==
    LET new_end0 == word_backword_n(b, r.end, count)
        line_end == line_end_offset(b, mode, new_end0)
        new_end == IF new_end0 > line_end THEN line_end ELSE new_end0
    IN  Arm(new_end, Col(offset_to_line_col(b, new_end)[2]), FALSE)

\* mutant of update_start: the start always collapses to the new end
update_start_collapse(r, end, mode) == end

\* the start of the updated region: kept in Visual mode, the new end otherwise
update_start(r, end, mode) == IF mode = "Visual" THEN r.start ELSE end

update_region(self, r, b, mode) ==
    LET arm == CASE self.kind = "Left" -> update_Left(self.count, r, b, mode)
                 [] self.kind = "Right" -> update_Right(self.count, r, b, mode)
                 [] self.kind = "Up" -> update_Up(self.count, r, b, mode)
                 [] self.kind = "Down" -> update_Down(self.count, r, b, mode)
                 [] self.kind = "StartOfLine" -> update_StartOfLine(r, b, mode)
                 [] self.kind = "EndOfLine" -> update_EndOfLine(r, b, mode)
                 [] self.kind = "Line" ->
                        update_Line(self.position, self.count, r, b, mode)
                 [] self.kind = "WordForward" ->
                        update_WordForward(self.count, r, b, mode)
                 [] self.kind = "WordBackward" ->
                        update_WordBackward(self.count, r, b, mode)
    IN  [region |-> SelRegion(update_start(r, arm.end, mode), arm.end, arm.horiz),
         underflow |-> arm.underflow]

\* Buffer::fill_horiz: a region left without horiz gets the column of its end
fill_horiz(b, rs) ==
    [i \in 1 .. Len(rs) |->
        IF rs[i].horiz = NoneHoriz
        THEN SelRegion(rs[i].start, rs[i].end, Col(offset_to_line_col(b, rs[i].end)[2]))
        ELSE rs[i]]

\* mutant of update_selection: the moved regions are pushed, not add_region-ed
RECURSIVE update_selection_push_from(_, _, _, _, _, _)
update_selection_push_from(self, regions, i, acc, b, mode) ==
    IF i > Len(regions)
    THEN acc
    ELSE LET res == update_region(self, regions[i], b, mode)
         IN  update_selection_push_from(self, regions, i + 1,
                 [sel |-> Append(acc.sel, res.region),
                  underflow |-> acc.underflow \/ res.underflow], b, mode)

update_selection_push(self, regions, b, mode) ==
    update_selection_push_from(self, regions, 1,
        [sel |-> Selection_new, underflow |-> FALSE], b, mode)

\* the for loop of update_selection over selection.regions[i - 1 ..]
RECURSIVE update_selection_from(_, _, _, _, _, _)
update_selection_from(self, regions, i, acc, b, mode) ==
    IF i > Len(regions)
    THEN acc
    ELSE LET res == update_region(self, regions[i], b, mode)
         IN  update_selection_from(self, regions, i + 1,
                 [sel |-> add_region(acc.sel, res.region),
                  underflow |-> acc.underflow \/ res.underflow], b, mode)

\* new_selection before buffer.fill_horiz, and whether a usize subtraction
\* of update_region went below zero on the way
update_selection(self, regions, b, mode) ==
    update_selection_from(self, regions, 1,
        [sel |-> Selection_new, underflow |-> FALSE], b, mode)

\* ------------------------------------------------------------------------
\* State
\* ------------------------------------------------------------------------
VARIABLES
    regions,    \* Selection.regions
    prev,       \* Selection.regions before the last operation
    op,         \* the last Selection operation, its arguments and its result
    buffer,     \* the Buffer's text
    mode,       \* the Mode
    cur,        \* the SelRegion movements are applied to
    anchor,     \* cur.start before the first movement
    mv,         \* the last movement, the region it was applied to, its outcome
    track,      \* the EndOfLine / Down / Up walk: its phase and where it began
    crashed,    \* update_region panicked (debug build) instead of returning
    batch       \* regions handed to add_region in any order, and those left

selVars == << regions, prev, op >>
moveVars == << buffer, mode, cur, anchor, mv, track, crashed >>
vars == << regions, prev, op, buffer, mode, cur, anchor, mv, track, crashed, batch >>

Offsets == 0 .. MaxOff
Horizs == { End }
Regions == { SelRegion(s, e, h) : s \in Offsets, e \in Offsets, h \in Horizs }
EditOffsets == 0 .. MaxEditOff
EditRegions == { SelRegion(s, e, h) : s \in EditOffsets, e \in EditOffsets, h \in Horizs }
Drifts == { "Inside", "Outside", "Default" }

NoOp ==
    [name |-> "new", region |-> SelRegion(0, 0, NoneHoriz), lo |-> 0, hi |-> 0,
     first |-> 0, last |-> 0, edit |-> "none", p |-> 0, k |-> 0,
     after |-> FALSE, drift |-> "Default", ix |-> 0, end_ix |-> 0,
     panic |-> FALSE, value |-> 0, move |-> "none", sel |-> << >>,
     underflow |-> FALSE]

NoMove ==
    [kind |-> "none", count |-> 0, position |-> "none",
     before |-> SelRegion(0, 0, NoneHoriz), underflow |-> FALSE]

NoBatch == [items |-> << >>, left |-> {}]

NoTrack == [phase |-> "none", line |-> 0, end |-> 0, shorter |-> TRUE]

\* the movement variables while a Selection is exercised
MoveIdle ==
    /\ buffer = << >>
    /\ mode = "Normal"
    /\ cur = SelRegion(0, 0, NoneHoriz)
    /\ anchor = 0
    /\ mv = NoMove
    /\ track = NoTrack
    /\ crashed = FALSE

\* the Selection variables while a movement is exercised
SelIdle ==
    /\ regions = Selection_new
    /\ prev = Selection_new
    /\ op = NoOp
    /\ batch = NoBatch

\* largest offset held by a Selection (0 when empty)
RECURSIVE top_offset(_)
top_offset(rs) ==
    IF Len(rs) = 0 THEN 0 ELSE max(SelRegion_max(rs[1]), top_offset(Tail(rs)))

\* ------------------------------------------------------------------------
\* State machine of one Selection value
\* ------------------------------------------------------------------------
Constructed(offs) ==
    { Selection_new, new_simple }
        \cup { caret(o) : o \in offs }
        \cup { region(s, e) : s \in offs, e \in offs }

Init ==
    /\ regions \in Constructed(Offsets)
    /\ prev = Selection_new
    /\ op = NoOp
    /\ batch = NoBatch
    /\ MoveIdle

AddRegion(r) ==
    \E res \in { add_region_steps(regions, r) } :
        /\ regions' = res.regions
        /\ prev' = regions
        /\ op' = [NoOp EXCEPT !.name = "add_region", !.region = r,
                              !.ix = res.ix, !.end_ix = res.end_ix]
        /\ UNCHANGED << moveVars, batch >>

Search(offset) ==
    /\ op' = [NoOp EXCEPT !.name = "search", !.lo = offset,
                          !.value = search(regions, offset)]
    /\ prev' = regions
    /\ UNCHANGED regions
    /\ UNCHANGED << moveVars, batch >>

\* a call that returns an offset or panics
OffsetQuery(name, res) ==
    /\ op' = [NoOp EXCEPT !.name = name, !.panic = res.panic, !.value = res.value]
    /\ prev' = regions
    /\ UNCHANGED regions
    /\ UNCHANGED << moveVars, batch >>

\* a call whose returned Selection replaces the current one, or that panics
SelectionQuery(name, res) ==
    /\ op' = [NoOp EXCEPT !.name = name, !.panic = res.panic]
    /\ prev' = regions
    /\ regions' = IF res.panic THEN regions ELSE res.sel
    /\ UNCHANGED << moveVars, batch >>

GetCursorOffset == OffsetQuery("get_cursor_offset", get_cursor_offset(regions))

Min == OffsetQuery("min", Selection_min(regions))

Collapse == SelectionQuery("collapse", collapse(regions))

ToCaret == SelectionQuery("to_caret", to_caret(regions))

\* update_selection(m, selection, buffer, mode): it returns the filled
\* Selection (a usize subtraction below zero wraps in a release build) or,
\* in a debug build, panics on that subtraction
UpdateSelection(m) ==
    \E res \in { update_selection(m, regions, buffer, mode) } :
        /\ prev' = regions
        /\ \/ /\ regions' = fill_horiz(buffer, res.sel)
              /\ op' = [NoOp EXCEPT !.name = "update_selection", !.move = m.kind,
                                    !.sel = res.sel, !.underflow = res.underflow]
           \/ /\ res.underflow
              /\ UNCHANGED regions
              /\ op' = [NoOp EXCEPT !.name = "update_selection", !.move = m.kind,
                                    !.panic = TRUE, !.underflow = TRUE]
        /\ UNCHANGED << cur, anchor, mv, track, crashed, buffer, mode, batch >>

RegionsInRange(lo, hi) ==
    LET res == regions_in_range(regions, lo, hi)
    IN  /\ op' = [NoOp EXCEPT !.name = "regions_in_range", !.lo = lo, !.hi = hi,
                              !.first = res.first, !.last = res.last]
        /\ prev' = regions
        /\ UNCHANGED regions
        /\ UNCHANGED << moveVars, batch >>

\* apply_delta with the delta of inserting k characters at p
ApplyInsert(p, k, after, drift) ==
    /\ top_offset(regions) + k <= MaxEditOff
    /\ regions' = apply_delta(regions, InsertDelta(p, k, MaxEditOff - k), after, drift)
    /\ prev' = regions
    /\ op' = [NoOp EXCEPT !.name = "apply_delta", !.edit = "insert", !.p = p,
                          !.k = k, !.after = after, !.drift = drift]
    /\ UNCHANGED << moveVars, batch >>

\* apply_delta with the delta of deleting [a, b)
ApplyDelete(a, b, after, drift) ==
    /\ regions' = apply_delta(regions, DeleteDelta(a, b, MaxEditOff), after, drift)
    /\ prev' = regions
    /\ op' = [NoOp EXCEPT !.name = "apply_delta", !.edit = "delete", !.p = a,
                          !.k = b - a, !.after = after, !.drift = drift]
    /\ UNCHANGED << moveVars, batch >>

InsertEdit ==
    \E k \in 1 .. MaxIns, after \in BOOLEAN, drift \in Drifts :
        \E p \in 0 .. (MaxEditOff - k) : ApplyInsert(p, k, after, drift)

DeleteEdit ==
    \E a \in EditOffsets, b \in EditOffsets, after \in BOOLEAN, drift \in Drifts :
        a < b /\ ApplyDelete(a, b, after, drift)

\* a Selection built by add_region alone
Next == \E r \in Regions : AddRegion(r)

Spec == Init /\ [][Next]_vars

\* a Selection built by add_region and queried by regions_in_range
RangeNext ==
    \/ \E r \in Regions : AddRegion(r)
    \/ \E lo \in Offsets, hi \in Offsets : lo <= hi /\ RegionsInRange(lo, hi)

RangeSpec == Init /\ [][RangeNext]_vars

\* a Selection built by add_region and queried by search and min
QueryNext ==
    \/ \E r \in Regions : AddRegion(r)
    \/ \E offset \in Offsets : Search(offset)
    \/ Min

QuerySpec == Init /\ [][QueryNext]_vars

\* the position of a region in the order a batch is drawn in
region_key(r) == r.start * (MaxEditOff + 1) + r.end

\* every batch of at most MaxItems regions, as a list in ascending key order
Batches ==
    UNION { { s \in [1 .. n -> EditRegions] :
                \A i \in 1 .. n : \A j \in 1 .. n :
                    i < j => region_key(s[i]) <= region_key(s[j]) } :
            n \in 0 .. MaxItems }

\* an empty Selection and a batch of regions to insert into it
PermInit ==
    /\ regions = Selection_new
    /\ prev = Selection_new
    /\ op = NoOp
    /\ \E items \in Batches :
          batch = [items |-> items, left |-> 1 .. Len(items)]
    /\ MoveIdle

\* add_region of one of the regions of the batch that are left, whichever
InsertLeft(i) ==
    /\ i \in batch.left
    /\ \E res \in { add_region_steps(regions, batch.items[i]) } :
          /\ regions' = res.regions
          /\ op' = [NoOp EXCEPT !.name = "add_region", !.region = batch.items[i],
                                !.ix = res.ix, !.end_ix = res.end_ix]
    /\ prev' = regions
    /\ batch' = [batch EXCEPT !.left = @ \ { i }]
    /\ UNCHANGED moveVars

PermNext == \E i \in 1 .. MaxItems : InsertLeft(i)

PermSpec == PermInit /\ [][PermNext]_vars

\* a Selection built by add_region and rebased across edits
DeltaInit ==
    /\ regions \in Constructed(EditOffsets)
    /\ prev = Selection_new
    /\ op = NoOp
    /\ batch = NoBatch
    /\ MoveIdle

DeltaNext ==
    \/ \E r \in EditRegions : AddRegion(r)
    \/ InsertEdit
    \/ DeleteEdit

DeltaSpec == DeltaInit /\ [][DeltaNext]_vars

\* ------------------------------------------------------------------------
\* State machines of update_region
\* ------------------------------------------------------------------------
Chars == { "a", "\n" }

\* every text of at most MaxBufLen characters
RECURSIVE TextsOfLen(_)
TextsOfLen(n) ==
    IF n = 0
    THEN { << >> }
    ELSE { Append(t, c) : t \in TextsOfLen(n - 1), c \in Chars }

Texts == UNION { TextsOfLen(n) : n \in 0 .. MaxBufLen }

Counts == 0 .. MaxCount

Movements ==
    { Left(n) : n \in Counts } \cup { Right(n) : n \in Counts }
        \cup { Up(n) : n \in Counts } \cup { Down(n) : n \in Counts }
        \cup { WordForward(n) : n \in Counts } \cup { WordBackward(n) : n \in Counts }
        \cup { StartOfLine, EndOfLine, Line("First", 0), Line("Last", 0) }
        \cup { Line("Line", n) : n \in Counts }

InitHorizs == { NoneHoriz, FirstNonBlank, End, Col(1) }

\* update_region(m, cur, buffer, mode): it returns the region (a usize
\* subtraction below zero wraps in a release build) or, in a debug build,
\* panics on that subtraction
Apply(m) ==
    /\ ~crashed
    /\ cur.end <= buffer_len(buffer)
    /\ LET res == update_region(m, cur, buffer, mode)
       IN  \/ /\ cur' = res.region
              /\ crashed' = FALSE
           \/ /\ res.underflow
              /\ cur' = cur
              /\ crashed' = TRUE
    /\ UNCHANGED << buffer, mode, anchor, regions, prev, op, batch >>

\* one application of update_region to a drawn region, buffer and mode
MoveInit ==
    /\ buffer \in Texts
    /\ mode \in Modes
    /\ \E e \in 0 .. MaxBufLen, h \in InitHorizs :
          /\ e <= Len(buffer)
          /\ \E s \in { 0, e, Len(buffer) } : cur = SelRegion(s, e, h)
    /\ anchor = cur.start
    /\ mv = NoMove
    /\ track = NoTrack
    /\ crashed = FALSE
    /\ SelIdle

MoveOnce(m) ==
    /\ mv.kind = "none"
    /\ Apply(m)
    /\ mv' = [kind |-> m.kind, count |-> m.count, position |-> m.position,
              before |-> cur,
              underflow |-> update_region(m, cur, buffer, mode).underflow]
    /\ UNCHANGED track

\* ------------------------------------------------------------------------
\* State machine of one operation on a Selection over a buffer
\* ------------------------------------------------------------------------
\* every text of at most MaxEditOff characters
EditTexts == UNION { TextsOfLen(n) : n \in 0 .. MaxEditOff }

\* the Selections a constructor and at most two add_region calls build
Built(offs) ==
    LET rs == { SelRegion(s, e, h) : s \in offs, e \in offs, h \in Horizs }
        once == Constructed(offs)
                  \cup { add_region(c, r) : c \in Constructed(offs), r \in rs }
    IN  once \cup { add_region(c, r) : c \in once, r \in rs }

OneInit ==
    /\ buffer \in EditTexts
    /\ mode \in Modes
    /\ regions \in Built(0 .. Len(buffer))
    /\ prev = Selection_new
    /\ op = NoOp
    /\ batch = NoBatch
    /\ cur = SelRegion(0, 0, NoneHoriz)
    /\ anchor = 0
    /\ mv = NoMove
    /\ track = NoTrack
    /\ crashed = FALSE

\* no call has been made on the Selection drawn by OneInit
Fresh == op.name = "new"

\* one call on the Selection drawn by OneInit
OneNext ==
    \/ \E r \in EditRegions : Fresh /\ AddRegion(r)
    \/ Fresh /\ GetCursorOffset
    \/ Fresh /\ Min
    \/ Fresh /\ Collapse
    \/ Fresh /\ ToCaret
    \/ Fresh /\ InsertEdit
    \/ Fresh /\ DeleteEdit
    \/ \E m \in Movements : Fresh /\ UpdateSelection(m)

OneSpec == OneInit /\ [][OneNext]_vars

MoveNext == \E m \in Movements : MoveOnce(m)

MoveSpec == MoveInit /\ [][MoveNext]_vars

\* repeated applications of update_region to the region it returned
MoveAgain(m) ==
    /\ Apply(m)
    /\ mv' = IF crashed' THEN mv ELSE [NoMove EXCEPT !.kind = "applied"]
    /\ UNCHANGED track

RepeatNext == \E m \in Movements : MoveAgain(m)

RepeatSpec == MoveInit /\ [][RepeatNext]_vars

\* the walk EndOfLine, then Down moves, then Up moves, from a caret
WalkInit ==
    /\ buffer \in Texts
    /\ mode \in Modes
    /\ \E e \in 0 .. MaxBufLen :
          e <= Len(buffer) /\ cur = SelRegion(e, e, NoneHoriz)
    /\ anchor = cur.start
    /\ mv = NoMove
    /\ track = [NoTrack EXCEPT !.phase = "start"]
    /\ crashed = FALSE
    /\ SelIdle

WalkEndOfLine ==
    /\ track.phase = "start"
    /\ Apply(EndOfLine)
    /\ track' = [phase |-> "eol", line |-> line_of_offset(buffer, cur'.end),
                 end |-> cur'.end, shorter |-> TRUE]
    /\ UNCHANGED mv

\* shorter: every line a Down move landed on is shorter than the walk's line
WalkDown(n) ==
    /\ track.phase \in { "eol", "down" }
    /\ Apply(Down(n))
    /\ track' = [track EXCEPT
                   !.phase = "down",
                   !.shorter = track.shorter
                       /\ line_len(buffer, line_of_offset(buffer, cur'.end))
                              < line_len(buffer, track.line)]
    /\ UNCHANGED mv

WalkUp(n) ==
    /\ track.phase \in { "down", "up" }
    /\ Apply(Up(n))
    /\ track' = [track EXCEPT !.phase = "up"]
    /\ UNCHANGED mv

WalkNext ==
    \/ WalkEndOfLine
    \/ \E n \in Counts : WalkDown(n)
    \/ \E n \in Counts : WalkUp(n)

WalkSpec == WalkInit /\ [][WalkNext]_vars

\* ------------------------------------------------------------------------
\* Properties
\* ------------------------------------------------------------------------
\* every pair of regions: sorted ascending by max, extents do not overlap
Sorted(rs) ==
    \A i \in 1 .. Len(rs) : \A j \in 1 .. Len(rs) :
        i < j => /\ SelRegion_max(rs[i]) <= SelRegion_max(rs[j])
                 /\ SelRegion_max(rs[i]) <= SelRegion_min(rs[j])

\* the extents overlap: each starts before the other ends
Overlap(a, b) ==
    SelRegion_min(a) < SelRegion_max(b) /\ SelRegion_min(b) < SelRegion_max(a)

Extent(r) == << SelRegion_min(r), SelRegion_max(r) >>

SetMin(S) == CHOOSE x \in S : \A y \in S : x <= y
SetMax(S) == CHOOSE x \in S : \A y \in S : x >= y

\* C1: from any constructor and after any sequence of add_region calls the
\* regions are sorted ascending by max and no two of them overlap: for
\* i < j, regions[i].max <= regions[j].max and regions[i].max <= regions[j].min.
C1_SortedNonOverlap == Sorted(regions)

\* an add_region call that left three regions in the Selection
C1_Witness == op.name = "add_region" /\ Len(regions) >= 3 /\ Len(prev) = 2

\* C2: regions_in_range(lo, hi), lo <= hi, returns exactly the regions whose
\* closed extent [min, max] intersects [lo, hi], a region that only touches
\* hi included: none omitted, none extra.
C2_RangeExact ==
    op.name = "regions_in_range" =>
        \A i \in 1 .. Len(regions) :
            (op.first <= i - 1 /\ i - 1 < op.last)
                <=> (SelRegion_min(regions[i]) <= op.hi
                        /\ SelRegion_max(regions[i]) >= op.lo)

\* C3: Left(n) on a region with end e on a line starting at s yields the end
\* max(e - n, s), never before the line's start, also for n > e, and horiz
\* Col(column of the new end).
C3_LeftSaturates ==
    (mv.kind = "Left" /\ ~crashed) =>
        LET e == mv.before.end
            s == offset_of_line(buffer, line_of_offset(buffer, e))
        IN  /\ cur.end = max(e - mv.count, s)
            /\ cur.horiz = Col(cur.end - s)

\* C4: no unsigned subtraction of update_region goes below zero, for every
\* movement, mode, region within the buffer and buffer.
C4_NoUnderflow == ~mv.underflow

CountedKinds == { "Left", "Right", "Up", "Down", "WordForward", "WordBackward" }

\* C5 as stated: a count of zero is a no-op for every counted movement, mode
\* and horiz: the returned end is the input's end (read here on the calls in
\* which no subtraction goes below zero).
C5_ZeroCountNoOp ==
    (mv.kind \in CountedKinds /\ mv.count = 0 /\ ~mv.underflow) =>
        cur.end = mv.before.end

\* C5 amended: Left(0) and WordForward(0) return the input's end; Right(0)
\* and WordBackward(0) return it clamped to the line end offset of the mode;
\* Down(0) returns the start of the current line plus the column the horiz
\* selects; Up(0), when no End or Col horiz is set, returns the start of the
\* current line.
C5_ZeroCountAmended ==
    (mv.count = 0 /\ ~crashed) =>
        LET e == mv.before.end
            line == line_of_offset(buffer, e)
        IN  /\ mv.kind \in { "Left", "WordForward" } => cur.end = e
            /\ mv.kind \in { "Right", "WordBackward" } =>
                   cur.end = min(e, line_end_offset(buffer, mode, e))
            /\ mv.kind = "Down" =>
                   cur.end = offset_of_line(buffer, line)
                                + col_on_line(buffer, mode, line, mv.before.horiz)
            /\ (mv.kind = "Up" /\ mv.before.horiz.kind \notin { "End", "Col" }) =>
                   cur.end = offset_of_line(buffer, line)

\* a zero count that moved the end: Down(0) without horiz, off the line start
C5_Witness ==
    /\ mv.kind = "Down" /\ mv.count = 0 /\ ~crashed
    /\ mv.before.horiz = NoneHoriz
    /\ cur.end # mv.before.end

\* the regions of prev whose extent overlaps the added region
Overlapped == { i \in 1 .. Len(prev) : Overlap(prev[i], op.region) }

\* C6: add_region(N) with N overlapping existing regions replaces them and N
\* by one region whose extent is the union of their extents:
\* [min of the mins, max of the maxes].
C6_MergeUnion ==
    (op.name = "add_region" /\ Overlapped # {}) =>
        LET lo == SetMin({ SelRegion_min(prev[i]) : i \in Overlapped }
                            \cup { SelRegion_min(op.region) })
            hi == SetMax({ SelRegion_max(prev[i]) : i \in Overlapped }
                            \cup { SelRegion_max(op.region) })
            inside == { k \in 1 .. Len(regions) :
                          lo <= SelRegion_min(regions[k])
                              /\ SelRegion_max(regions[k]) <= hi }
        IN  /\ Cardinality(inside) = 1
            /\ \A k \in inside : Extent(regions[k]) = << lo, hi >>
            /\ Len(regions) <= Len(prev) - Cardinality(Overlapped) + 1

\* an add_region call whose region overlapped two existing regions
C6_Witness ==
    op.name = "add_region" /\ Cardinality(Overlapped) >= 2 /\ Len(regions) >= 2

\* C7: a caret added at the offset of an existing caret, or at the max of an
\* existing range, is absorbed: the region count and every extent are
\* unchanged, so one region holds that offset as its max.
C7_CaretAbsorbed ==
    (/\ op.name = "add_region"
     /\ is_caret(op.region)
     /\ \E i \in 1 .. Len(prev) : SelRegion_max(prev[i]) = op.region.end) =>
        /\ Len(regions) = Len(prev)
        /\ \A i \in 1 .. Len(prev) : Extent(regions[i]) = Extent(prev[i])
        /\ Cardinality({ k \in 1 .. Len(regions) :
                           SelRegion_max(regions[k]) = op.region.end }) = 1

\* a caret added at the max of a range that has a neighbour starting there
C7_Witness ==
    /\ op.name = "add_region" /\ is_caret(op.region)
    /\ \E i \in 1 .. Len(prev) - 1 :
          /\ ~is_caret(prev[i])
          /\ SelRegion_max(prev[i]) = op.region.end
          /\ SelRegion_min(prev[i + 1]) = op.region.end
    /\ Len(regions) = Len(prev)

\* C8: after EndOfLine on line L, Down moves that land only on lines shorter
\* than L followed by Up moves that return to L yield the end EndOfLine
\* produced on L, and horiz is End after every move of the walk.
C8_AffinityStable ==
    /\ (track.phase \in { "eol", "down", "up" } /\ ~crashed) => cur.horiz = End
    /\ (/\ track.phase = "up"
        /\ track.shorter
        /\ ~crashed
        /\ cur.end <= buffer_len(buffer)
        /\ line_of_offset(buffer, cur.end) = track.line) => cur.end = track.end

\* C9: anchor policy of update_region, after any number of applications: in
\* Visual mode start is the original start, in every other mode start is the
\* new end.
C9_AnchorPolicy ==
    mv.kind = "applied" =>
        /\ mode = "Visual" => cur.start = anchor
        /\ mode # "Visual" => cur.start = cur.end

\* a Visual-mode movement that moved the end away from the kept start
C9_Witness ==
    /\ mv.kind = "applied" /\ mode = "Visual"
    /\ cur.end <= buffer_len(buffer)
    /\ cur.end # cur.start /\ cur.start = anchor /\ anchor > 0

\* C10: a single caret at o rebased across the insertion of k characters at
\* p <= o: with after it becomes a single caret at o + k; a caret at p without
\* after stays a caret at p; for every drift.
C10_CaretShift ==
    (/\ op.name = "apply_delta" /\ op.edit = "insert"
     /\ Len(prev) = 1 /\ is_caret(prev[1])
     /\ op.p <= prev[1].end) =>
        /\ op.after => regions = caret(prev[1].end + op.k)
        /\ (~op.after /\ prev[1].end = op.p) => regions = caret(op.p)

\* a caret at the insertion point rebased without after under Inside drift
C10_Witness ==
    /\ op.name = "apply_delta" /\ op.edit = "insert"
    /\ Len(prev) = 1 /\ is_caret(prev[1])
    /\ prev[1].end = op.p /\ ~op.after /\ op.drift = "Inside" /\ op.p > 0
    /\ regions = caret(op.p)

\* an insertion of op.k characters at the min or the max of the only region,
\* a true range, rebased with the given drift
EdgeInsert(drift) ==
    /\ op.name = "apply_delta"
    /\ op.edit = "insert"
    /\ op.drift = drift
    /\ Len(prev) = 1
    /\ ~is_caret(prev[1])
    /\ op.p \in { SelRegion_min(prev[1]), SelRegion_max(prev[1]) }

\* C11: for a true range, whatever afterFlag and the region's direction, text
\* inserted exactly at the region's min or max ends up inside the rebased
\* extent under Inside drift (the min stays, the max moves by k) and outside
\* it under Outside drift (the extent keeps its length: it shifts by k when
\* the text went in at min and stays when it went in at max); the direction
\* of the region is kept.
C11_DriftBias ==
    /\ EdgeInsert("Inside") =>
          /\ Len(regions) = 1
          /\ SelRegion_min(regions[1]) = SelRegion_min(prev[1])
          /\ SelRegion_max(regions[1]) = SelRegion_max(prev[1]) + op.k
          /\ (regions[1].start < regions[1].end) = (prev[1].start < prev[1].end)
    /\ EdgeInsert("Outside") =>
          /\ Len(regions) = 1
          /\ SelRegion_max(regions[1]) - SelRegion_min(regions[1])
                = SelRegion_max(prev[1]) - SelRegion_min(prev[1])
          /\ SelRegion_min(regions[1])
                = IF op.p = SelRegion_min(prev[1])
                  THEN SelRegion_min(prev[1]) + op.k
                  ELSE SelRegion_min(prev[1])
          /\ (regions[1].start < regions[1].end) = (prev[1].start < prev[1].end)

\* a backward range grew by the text inserted at its max under Inside drift
\* although afterFlag was false
C11_Witness ==
    /\ EdgeInsert("Inside")
    /\ prev[1].start > prev[1].end
    /\ op.p = prev[1].start
    /\ ~op.after
    /\ regions[1].start = prev[1].start + op.k

CursorQueries == { "get_cursor_offset", "min", "collapse", "to_caret" }

Producers == { "add_region", "collapse", "to_caret", "apply_delta", "update_selection" }

\* C12: get_cursor_offset, min, collapse and to_caret called on an empty
\* Selection panic, returning neither an offset nor a Selection; add_region,
\* collapse, to_caret, apply_delta and update_selection called on a
\* non-empty Selection never return an empty one.
C12_EmptyIsFatal ==
    /\ (op.name \in CursorQueries /\ Len(prev) = 0) =>
          (op.panic /\ regions = prev)
    /\ (op.name \in Producers /\ Len(prev) > 0 /\ ~op.panic) =>
          /\ Len(regions) > 0
          /\ op.name = "update_selection" => Len(op.sel) > 0

\* min was called on the empty Selection and panicked
C12_Witness ==
    /\ op.name = "min"
    /\ Len(prev) = 0
    /\ op.panic

\* the min extents of the regions of a Selection
Mins(rs) == { SelRegion_min(rs[i]) : i \in 1 .. Len(rs) }

\* C13: min() returns the min extent of the last region; when the Selection
\* holds two regions or more, that is the largest min of all its regions and
\* differs from the smallest offset the Selection covers.
C13_MinOfLast ==
    (op.name = "min" /\ Len(regions) >= 1) =>
        /\ ~op.panic
        /\ op.value = SelRegion_min(regions[Len(regions)])
        /\ Len(regions) >= 2 =>
              /\ \A o \in Mins(regions) : o <= op.value
              /\ \E o \in Mins(regions) : o < op.value

\* min() of a Selection of three regions returned more than its smallest offset
C13_Witness ==
    /\ op.name = "min"
    /\ Len(regions) = 3
    /\ op.value > SelRegion_min(regions[1])

\* the index a left-to-right scan stops at: the first region whose max is
\* at least offset, or the number of regions
linear_scan(rs, offset) ==
    LET hits == { i \in 0 .. (Len(rs) - 1) : SelRegion_max(rs[i + 1]) >= offset }
    IN  IF hits = {} THEN Len(rs) ELSE SetMin(hits)

\* C14: on a Selection built by add_region, search(offset) is the index of
\* the first region whose max >= offset, the number of regions when every
\* max is below offset, and 0 on an empty Selection: the index a linear
\* left-to-right scan finds.
C14_SearchIsScan ==
    op.name = "search" =>
        /\ op.value = linear_scan(regions, op.lo)
        /\ Len(regions) = 0 => op.value = 0

\* search stopped at the last of three regions, after skipping two
C14_Witness ==
    /\ op.name = "search"
    /\ Len(regions) >= 3
    /\ op.value = 2
    /\ SelRegion_max(regions[3]) > op.lo

\* add_region merged op.region with the regions prev[op.ix .. op.end_ix - 1]
\* (0-based) into regions[op.ix]
Merged == op.name = "add_region" /\ op.end_ix > op.ix

MergedInputs == { prev[i] : i \in (op.ix + 1) .. op.end_ix } \cup { op.region }

\* C15: when add_region merges the new region with existing regions, the
\* region stored is forward (start < end) exactly when one of the merged
\* regions, the new one included, was forward, is otherwise backward or
\* zero-width (start >= end), and has no horiz whatever the inputs carried.
C15_MergeDirection ==
    Merged =>
        LET m == regions[op.ix + 1]
        IN  /\ m.horiz = NoneHoriz
            /\ (m.start < m.end) = (\E x \in MergedInputs : x.start < x.end)
            /\ (m.start >= m.end) = (\A x \in MergedInputs : x.start >= x.end)

\* a forward region merged with two backward regions that carried a horiz
C15_Witness ==
    /\ Merged
    /\ op.end_ix = op.ix + 2
    /\ op.region.start < op.region.end
    /\ \A i \in (op.ix + 1) .. op.end_ix :
          prev[i].start > prev[i].end /\ prev[i].horiz = End
    /\ regions[op.ix + 1].start < regions[op.ix + 1].end

\* update_selection returned op.sel (before fill_horiz) for the input prev
Updated == op.name = "update_selection" /\ ~op.panic

\* the input held two carets on one line and the movement was StartOfLine
TwoCaretsToLineStart ==
    /\ Updated
    /\ op.move = "StartOfLine"
    /\ Len(prev) = 2
    /\ is_caret(prev[1])
    /\ is_caret(prev[2])
    /\ line_of_offset(buffer, prev[1].end) = line_of_offset(buffer, prev[2].end)

\* C16 as stated: the Selection update_selection builds (before fill_horiz)
\* is sorted and free of overlaps, holds at least one region and at most as
\* many as the input, and two carets on one line become a single caret
\* after StartOfLine.
C16_UpdateMerges ==
    /\ Updated =>
          /\ Sorted(op.sel)
          /\ Len(op.sel) >= 1
          /\ Len(op.sel) <= Len(prev)
    /\ TwoCaretsToLineStart => (Len(op.sel) = 1 /\ is_caret(op.sel[1]))

\* C16 amended: the Selection update_selection builds (before fill_horiz)
\* is sorted and free of overlaps and holds at most as many regions as the
\* input; it holds at least one region when the input does and none when
\* the input is empty; two carets on one line become a single region after
\* StartOfLine, a caret unless the mode is Visual, where each region keeps
\* its start and the merged region is a backward range.
C16_UpdateMergesAmended ==
    /\ Updated =>
          /\ Sorted(op.sel)
          /\ Len(op.sel) <= Len(prev)
          /\ Len(prev) >= 1 => Len(op.sel) >= 1
          /\ Len(prev) = 0 => Len(op.sel) = 0
    /\ TwoCaretsToLineStart =>
          /\ Len(op.sel) = 1
          /\ mode # "Visual" => is_caret(op.sel[1])
          /\ mode = "Visual" => op.sel[1].start > op.sel[1].end

\* two carets on the second line of the buffer became one caret at its start
C16_Witness ==
    /\ TwoCaretsToLineStart
    /\ mode = "Normal"
    /\ prev[1].end > 0
    /\ Len(op.sel) = 1
    /\ is_caret(op.sel[1])
    /\ op.sel[1].end = prev[1].end

\* the delta of the edit recorded in op
op_delta ==
    IF op.edit = "insert"
    THEN InsertDelta(op.p, op.k, MaxEditOff - op.k)
    ELSE DeleteDelta(op.p, op.p + op.k, MaxEditOff)

\* prev[i] carried across the edit recorded in op
rebased(i) ==
    LET bias == delta_bias(prev[i], op.after, op.drift)
    IN  SelRegion(transform(op_delta, prev[i].start, bias[1]),
                  transform(op_delta, prev[i].end, bias[2]),
                  NoneHoriz)

\* the extent of a lies within the extent of b
Within(a, b) ==
    SelRegion_min(b) <= SelRegion_min(a) /\ SelRegion_max(a) <= SelRegion_max(b)

\* C17: after apply_delta, for an insertion or a deletion, the regions are
\* sorted and free of overlaps, are no more than the input's, and carry no
\* horiz; every caret of the input is rebased to a caret; every rebased
\* region lies within a region of the result, and two rebased regions that
\* overlap, or are carets at one offset, lie within the same one.
C17_RebaseMerges ==
    op.name = "apply_delta" =>
        /\ Sorted(regions)
        /\ Len(regions) <= Len(prev)
        /\ \A k \in 1 .. Len(regions) : regions[k].horiz = NoneHoriz
        /\ \A i \in 1 .. Len(prev) :
              /\ is_caret(prev[i]) => is_caret(rebased(i))
              /\ \E k \in 1 .. Len(regions) : Within(rebased(i), regions[k])
        /\ \A i \in 1 .. Len(prev) : \A j \in 1 .. Len(prev) :
              (i < j /\ (\/ Overlap(rebased(i), rebased(j))
                         \/ /\ is_caret(rebased(i))
                            /\ is_caret(rebased(j))
                            /\ rebased(i).end = rebased(j).end)) =>
                  \E k \in 1 .. Len(regions) :
                      Within(rebased(i), regions[k]) /\ Within(rebased(j), regions[k])

\* two carets on either side of the deleted span became one caret
C17_Witness ==
    /\ op.name = "apply_delta"
    /\ op.edit = "delete"
    /\ Len(prev) = 2
    /\ prev[1] = SelRegion(op.p, op.p, End)
    /\ prev[2] = SelRegion(op.p + op.k, op.p + op.k, End)
    /\ regions = << SelRegion(op.p, op.p, NoneHoriz) >>

\* the regions of the batch already inserted, in the order the batch lists them
RECURSIVE inserted_in_order(_, _)
inserted_in_order(i, acc) ==
    IF i > Len(batch.items)
    THEN acc
    ELSE inserted_in_order(i + 1,
             IF i \in batch.left THEN acc ELSE add_region(acc, batch.items[i]))

Extents(rs) == [i \in 1 .. Len(rs) |-> Extent(rs[i])]

\* C18: whatever the order in which regions of a batch were inserted into
\* an empty Selection, the list of (min, max) extents is the one that
\* inserting the same regions in the batch's listed order gives.
C18_OrderIndependent ==
    Extents(regions) = Extents(inserted_in_order(1, Selection_new))

\* three regions went in in the reverse of the listed order, merged into
\* fewer regions, and the horiz that survived differs from the listed order's
C18_Witness ==
    /\ Len(batch.items) = 3
    /\ batch.left = {}
    /\ op.region = batch.items[1]
    /\ Len(regions) = 2
    /\ regions # inserted_in_order(1, Selection_new)

\* C19: in a Selection built by add_region no zero-width region shares an
\* offset with the extent of another region (it is not at the min, at the
\* max or inside another region, and is not where another caret is); the
\* max values and the min values of the regions are strictly increasing,
\* so at most one region has a given max.
C19_CaretIsolation ==
    /\ \A i \in 1 .. Len(regions) : \A j \in 1 .. Len(regions) :
          (i # j /\ is_caret(regions[i])) =>
              \/ regions[i].end < SelRegion_min(regions[j])
              \/ regions[i].end > SelRegion_max(regions[j])
    /\ \A i \in 1 .. Len(regions) : \A j \in 1 .. Len(regions) :
          i < j => /\ SelRegion_max(regions[i]) < SelRegion_max(regions[j])
                   /\ SelRegion_min(regions[i]) < SelRegion_min(regions[j])
    /\ \A offset \in Offsets :
          Cardinality({ i \in 1 .. Len(regions) :
                          SelRegion_max(regions[i]) = offset }) <= 1

\* a caret was added next to a range and another caret and stayed apart
C19_Witness ==
    /\ op.name = "add_region"
    /\ is_caret(op.region)
    /\ Len(prev) = 2
    /\ Len(regions) = 3
    /\ ~is_caret(regions[1])
    /\ regions[2] = op.region
    /\ is_caret(regions[3])
    /\ regions[2].end = SelRegion_max(regions[1]) + 1
    /\ regions[3].end = regions[2].end + 1

\* the offsets that lie in the extent of some region
Covered(rs) ==
    { o \in Offsets :
        \E i \in 1 .. Len(rs) : SelRegion_min(rs[i]) <= o /\ o <= SelRegion_max(rs[i]) }

\* the regions whose extent contains the extent of the region just added
Holders == { k \in 1 .. Len(regions) : Within(op.region, regions[k]) }

\* the regions outside the merged window are as they were and in their
\* order; a region that merged with nothing is stored as given
AddRegionFrame ==
    /\ Covered(prev) \subseteq Covered(regions)
    /\ SubSeq(regions, 1, op.ix) = SubSeq(prev, 1, op.ix)
    /\ SubSeq(regions, op.ix + 2, Len(regions))
          = SubSeq(prev, op.end_ix + 1, Len(prev))
    /\ op.end_ix = op.ix =>
          /\ regions[op.ix + 1] = op.region
          /\ Len(regions) = Len(prev) + 1

\* C20 as stated: after add_region(r) the extent of r lies within the extent
\* of exactly one region, every offset covered before is still covered,
\* the regions that did not merge with r keep start, end, horiz and order,
\* and an r that merged with nothing is stored as given, one region more.
C20_AddRegionFrame ==
    op.name = "add_region" =>
        /\ Cardinality(Holders) = 1
        /\ AddRegionFrame

\* C20 amended: after add_region(r) the extent of r lies within the extent
\* of the region stored at the insertion index, and of no other region
\* unless r is a caret at the offset where that region (a range) ends and
\* the next region (a range) begins, where both contain it; every offset
\* covered before is still covered, the regions that did not merge with r
\* keep start, end, horiz and order, and an r that merged with nothing is
\* stored as given, one region more.
C20_AddRegionFrameAmended ==
    op.name = "add_region" =>
        /\ (op.ix + 1) \in Holders
        /\ \/ Holders = { op.ix + 1 }
           \/ /\ Holders = { op.ix + 1, op.ix + 2 }
              /\ is_caret(op.region)
              /\ ~is_caret(regions[op.ix + 1])
              /\ ~is_caret(regions[op.ix + 2])
              /\ SelRegion_max(regions[op.ix + 1]) = op.region.end
              /\ SelRegion_min(regions[op.ix + 2]) = op.region.end
        /\ AddRegionFrame

\* a range merged two of four regions and left the first and the last alone
C20_Witness ==
    /\ op.name = "add_region"
    /\ Len(prev) = 4
    /\ op.ix = 1
    /\ op.end_ix = 3
    /\ Len(regions) = 3
    /\ regions[1] = prev[1]
    /\ regions[3] = prev[4]
    /\ Holders = { 2 }

====
